---- MODULE Spec2Model ----
(***************************************************************************)
(* dyn_struct: a header followed by a dynamically sized tail in one heap   *)
(* block (src/src/lib.rs), and DynArg, the forgotten-value pointer passed  *)
(* to the constructor (src/src/dyn_arg.rs).                                *)
(*                                                                         *)
(* One caller runs  dyn_arg!(t)  [as DynArg<U>]  DynStruct::new(h, arg)    *)
(* [transmute ...]  drop(box).  Memory is modelled at byte granularity.    *)
(***************************************************************************)
EXTENDS Integers, Sequences, FiniteSets, TLC

\* ---- bounds of the model ------------------------------------------------
MaxHeaderSize == 4
MaxLen == 2
MaxTransmutes == 2
MaxBlocks == 2

\* ---- universe of types and values ---------------------------------------
Aligns == {1, 2, 4}
ZstTy == [size |-> 0, align |-> 1]
\* size_of::<Header>() is a multiple of align_of::<Header>()
HeaderTypes == {ty \in [size : 0..MaxHeaderSize, align : Aligns] : ty.size % ty.align = 0}
\* element types of the tail: (), u8, u16, u32
ElemTypes == {ZstTy} \cup {[size |-> a, align |-> a] : a \in Aligns}
Vals == {1, 2}
\* a zero-sized type has exactly one value
ValuesOf(ty) == IF ty.size = 0 THEN {0} ELSE Vals
SeqsUpTo(S, n) == UNION {[1..k -> S] : k \in 0..n}
\* bytes a load from storage whose scope has ended may yield besides the retained ones
GarbageBytes == {0, 7}
MetaKinds == {"unit", "usize", "vtable"}
Targets == [name : {"DynStruct", "SomeStruct"}, metaKind : MetaKinds]

\* ---- object representation ----------------------------------------------
RECURSIVE ShiftRight(_, _)
\* v shifted right by i bytes
ShiftRight(v, i) == IF i = 0 THEN v ELSE ShiftRight(v \div 256, i - 1)
\* the n bytes of value v, little endian
EncodeLE(v, n) == [i \in 1..n |-> ShiftRight(v, i - 1) % 256]
RECURSIVE DecodeLE(_)
DecodeLE(bytes) ==
    IF Len(bytes) = 0 THEN 0
    ELSE bytes[1] + 256 * DecodeLE(SubSeq(bytes, 2, Len(bytes)))
\* bytes of an array of elements
ArrayBytes(elem, vals) ==
    [j \in 1..(Len(vals) * elem.size) |->
        EncodeLE(vals[((j - 1) \div elem.size) + 1], elem.size)[((j - 1) % elem.size) + 1]]
\* the n elements stored in a byte region
DecodeElems(bytes, elem, n) ==
    [k \in 1..n |-> DecodeLE(SubSeq(bytes, (k - 1) * elem.size + 1, k * elem.size))]

Max(a, b) == IF a >= b THEN a ELSE b
RoundUp(n, a) == ((n + a - 1) \div a) * a

\* ---- DynArg (dyn_arg.rs) --------------------------------------------------
NoVt == [elem |-> ZstTy, n |-> 0]
NoMeta == [len |-> 0, vt |-> NoVt]
\* null_mut()
NullAddr == 0
NoArg == [addr |-> NullAddr, kind |-> "none", elem |-> ZstTy, n |-> 0, meta |-> NoMeta]
\* &val, the address of the macro's local
ValAddr == 1

\* DynArg::from_raw(&val) for val : [elem; n]
from_raw(addr, elem, n) ==
    [addr |-> addr, kind |-> "array", elem |-> elem, n |-> n, meta |-> NoMeta]

\* DynArg::size : size_of_val of the pointee, from the type or the metadata
ArgSize(a) ==
    CASE a.kind = "array" -> a.n * a.elem.size
      [] a.kind = "slice" -> a.meta.len * a.elem.size
      [] a.kind = "dyn"   -> a.meta.vt.n * a.meta.vt.elem.size
      [] OTHER -> 0

\* DynArg::align : align_of_val of the pointee
ArgAlign(a) ==
    CASE a.kind = "dyn" -> a.meta.vt.elem.align
      [] OTHER -> a.elem.align

\* DynArg::metadata
Metadata(a) == a.meta

MetaKind(kind) ==
    CASE kind = "slice" -> "usize"
      [] kind = "dyn" -> "vtable"
      [] OTHER -> "unit"

\* element type and count the drop glue of the tail walks
TailElem(a) == IF a.kind = "dyn" THEN a.meta.vt.elem ELSE a.elem
TailCount(a) ==
    CASE a.kind = "array" -> a.n
      [] a.kind = "slice" -> a.meta.len
      [] a.kind = "dyn"   -> a.meta.vt.n
      [] OTHER -> 0

CoerceUnsizedDropsLast(a, target) ==
    IF target = "slice"
    THEN [a EXCEPT !.kind = "slice", !.n = 0,
                   !.meta = [len |-> IF a.n = 0 THEN 1 ELSE a.n - 1, vt |-> NoVt]]
    ELSE [a EXCEPT !.kind = "dyn", !.n = 0, !.elem = ZstTy,
                   !.meta = [len |-> 0, vt |-> [elem |-> a.elem, n |-> a.n]]]

\* DynArg<[T; N]> as DynArg<[T]> / as DynArg<dyn Trait>: the pointer is unsized
CoerceUnsized(a, target) ==
    IF target = "slice"
    THEN [a EXCEPT !.kind = "slice", !.n = 0,
                   !.meta = [len |-> a.n, vt |-> NoVt]]
    ELSE [a EXCEPT !.kind = "dyn", !.n = 0, !.elem = ZstTy,
                   !.meta = [len |-> 0, vt |-> [elem |-> a.elem, n |-> a.n]]]

\* what a load of n bytes from a stack slot can yield
ReadOutcomes(slot, n) ==
    IF slot.live
    THEN {SubSeq(slot.bytes, 1, n)}
    ELSE {SubSeq(slot.bytes, 1, n)} \cup {[i \in 1..n |-> g] : g \in GarbageBytes}

\* DynArg::write_into : the byte sequences copy_nonoverlapping can store at dst
WriteIntoOutcomes(a, slot) == ReadOutcomes(slot, ArgSize(a))

\* ---- DynStruct layout (lib.rs) --------------------------------------------
PaddingNoZeroBranch(header, tail_align) == tail_align - (header % tail_align)

Padding(header, tail_align) ==
    IF header % tail_align = 0 THEN 0 ELSE tail_align - (header % tail_align)

SizeTailOnly(header, tail_size, tail_align) == tail_size

\* DynStruct::size
Size(header, tail_size, tail_align) ==
    header + Padding(header, tail_align) + tail_size

\* DynStruct::align
Align(header_align, tail_align) == Max(header_align, tail_align)

\* #[repr(C)] struct { header, tail }: offset of the tail field
TailOffset(header, tail_align) == RoundUp(header, tail_align)

\* size_of_val of the #[repr(C)] struct, which Box uses to free it
LayoutForValue(header, header_align, tail_size, tail_align) ==
    [size  |-> RoundUp(TailOffset(header, tail_align) + tail_size,
                       Max(header_align, tail_align)),
     align |-> Max(header_align, tail_align)]

FieldOrderTailFirst == <<"tail", "header">>

\* fields are dropped in declaration order
FieldOrder == <<"header", "tail">>

WriteBytes(m, off, bytes) ==
    [i \in 1..Len(m) |->
        IF i > off /\ i <= off + Len(bytes) THEN bytes[i - off] ELSE m[i]]
ReadBytes(m, off, n) ==
    [i \in 1..n |-> IF off + i <= Len(m) THEN m[off + i] ELSE 0]

ReinterpretKeepsOriginal(bs, i, T) == Append(bs, [bs[i] EXCEPT !.ty = T.name])

\* more_unsafe_transmute: Box::into_raw(self), transmute the pointer, Box::from_raw
Reinterpret(bs, i, T) == [bs EXCEPT ![i] = [bs[i] EXCEPT !.ty = T.name]]

\* ---- state ----------------------------------------------------------------
VARIABLES
    pc,         \* position of the caller
    lastCall,   \* the function the caller ran last
    hdr,        \* the header passed to new: [ty, val]
    tail,       \* the value given to dyn_arg!: [elem, vals]
    stack,      \* the macro's local `val`: [bytes, live]
    arg,        \* the DynArg
    locals,     \* size and align computed by new
    mem,        \* bytes of the heap block
    heap,       \* live allocations
    boxes,      \* live owning handles: the fat pointer and the type it is a Box of
    allocCalls, \* layouts passed to alloc
    freeCalls,  \* layouts passed to dealloc
    events,     \* destructor and dealloc events
    tailDrops,  \* values the tail's drop glue ran on
    ntrans      \* transmutes done

vars == <<pc, lastCall, hdr, tail, stack, arg, locals, mem, heap, boxes,
          allocCalls, freeCalls, events, tailDrops, ntrans>>

NoHdr == [ty |-> ZstTy, val |-> 0]
NoTail == [elem |-> ZstTy, vals |-> <<>>]

Init ==
    /\ pc = "start"
    /\ lastCall = "none"
    /\ hdr = NoHdr
    /\ tail = NoTail
    /\ stack = [bytes |-> <<>>, live |-> FALSE]
    /\ arg = NoArg
    /\ locals = [size |-> 0, align |-> 1]
    /\ mem = <<>>
    /\ heap = {}
    /\ boxes = <<>>
    /\ allocCalls = <<>>
    /\ freeCalls = <<>>
    /\ events = <<>>
    /\ tailDrops = <<>>
    /\ ntrans = 0

\* dyn_arg!(t): let val = t; from_raw(&val); forget(val); the block ends
Capture ==
    /\ pc = "start"
    /\ \E elem \in ElemTypes : \E vals \in SeqsUpTo(ValuesOf(elem), MaxLen) :
        /\ tail' = [elem |-> elem, vals |-> vals]
        /\ stack' = [bytes |-> ArrayBytes(elem, vals), live |-> FALSE]
        /\ arg' = from_raw(ValAddr, elem, Len(vals))
    /\ pc' = "captured"
    /\ lastCall' = "dyn_arg"
    /\ UNCHANGED <<hdr, locals, mem, heap, boxes, allocCalls, freeCalls,
                   events, tailDrops, ntrans>>

\* dyn_arg!(t) as DynArg<[T]>, as DynArg<dyn Trait>
Widen ==
    /\ pc = "captured"
    /\ arg.kind = "array"
    /\ \E target \in {"slice", "dyn"} : arg' = CoerceUnsized(arg, target)
    /\ lastCall' = "coerce_unsized"
    /\ UNCHANGED <<pc, hdr, tail, stack, locals, mem, heap, boxes, allocCalls,
                   freeCalls, events, tailDrops, ntrans>>

\* DynStruct::new(header, tail)
New ==
    /\ pc = "captured"
    /\ \E hty \in HeaderTypes : \E hval \in ValuesOf(hty) :
       \E copied \in WriteIntoOutcomes(arg, stack) :
       \E blk \in 1..MaxBlocks :
         LET size == Size(hty.size, ArgSize(arg), ArgAlign(arg))
             align == Align(hty.align, ArgAlign(arg))
             metadata == Metadata(arg)
             thin_ptr == IF size = 0 THEN NullAddr ELSE blk * align
             fresh == [i \in 1..size |-> 0]
             withHeader == WriteBytes(fresh, 0, EncodeLE(hval, hty.size))
             tailOff == TailOffset(hty.size, ArgAlign(arg))
         IN /\ hdr' = [ty |-> hty, val |-> hval]
            /\ locals' = [size |-> size, align |-> align]
            /\ IF size = 0
               THEN /\ allocCalls' = allocCalls
                    /\ heap' = heap
               ELSE /\ allocCalls' = Append(allocCalls, [size |-> size, align |-> align])
                    /\ heap' = heap \cup {[ptr |-> thin_ptr, size |-> size, align |-> align]}
            /\ mem' = WriteBytes(withHeader, tailOff, copied)
            /\ boxes' = <<[ptr |-> thin_ptr, meta |-> metadata, kind |-> arg.kind,
                           elem |-> arg.elem, n |-> arg.n, ty |-> "DynStruct"]>>
    /\ pc' = "live"
    /\ lastCall' = "new"
    /\ arg' = NoArg
    /\ UNCHANGED <<tail, stack, freeCalls, events, tailDrops, ntrans>>

\* DynStruct::transmute::<T>: T's pointer metadata type is checked at compile time
Transmute ==
    /\ pc = "live"
    /\ ntrans < MaxTransmutes
    /\ \E i \in 1..Len(boxes) : \E T \in Targets :
        /\ boxes[i].ty = "DynStruct"
        /\ T.metaKind = MetaKind(boxes[i].kind)
        /\ boxes' = Reinterpret(boxes, i, T)
    /\ ntrans' = ntrans + 1
    /\ lastCall' = "transmute"
    /\ UNCHANGED <<pc, hdr, tail, stack, arg, locals, mem, heap, allocCalls,
                   freeCalls, events, tailDrops>>

\* DynStruct::more_unsafe_transmute::<T>: the caller answers for the metadata
MoreUnsafeTransmute ==
    /\ pc = "live"
    /\ ntrans < MaxTransmutes
    /\ \E i \in 1..Len(boxes) : \E T \in Targets :
        /\ boxes[i].ty = "DynStruct"
        /\ T.metaKind = MetaKind(boxes[i].kind)
        /\ boxes' = Reinterpret(boxes, i, T)
    /\ ntrans' = ntrans + 1
    /\ lastCall' = "more_unsafe_transmute"
    /\ UNCHANGED <<pc, hdr, tail, stack, arg, locals, mem, heap, allocCalls,
                   freeCalls, events, tailDrops>>

DropField(f) == IF f = "header" THEN "drop_header" ELSE "drop_tail"

\* the header and the tail a handle gives access to
ReadHeader == DecodeLE(ReadBytes(mem, 0, hdr.ty.size))
ReadTailBytes(b) == ReadBytes(mem, TailOffset(hdr.ty.size, ArgAlign(b)), ArgSize(b))
ReadTail(b) == DecodeElems(ReadTailBytes(b), TailElem(b), TailCount(b))

\* drop(box): drop glue of the fields, then Box frees with the layout of the value
DropBox ==
    /\ pc = "live"
    /\ \E i \in 1..Len(boxes) :
        LET b == boxes[i]
            layout == LayoutForValue(hdr.ty.size, hdr.ty.align, ArgSize(b), ArgAlign(b))
        IN /\ tailDrops' = tailDrops \o ReadTail(b)
           /\ IF layout.size # 0
              THEN /\ events' = events \o <<DropField(FieldOrder[1]), DropField(FieldOrder[2]), "dealloc">>
                   /\ freeCalls' = Append(freeCalls, layout)
                   /\ heap' = {h \in heap : h.ptr # b.ptr}
              ELSE /\ events' = events \o <<DropField(FieldOrder[1]), DropField(FieldOrder[2])>>
                   /\ freeCalls' = freeCalls
                   /\ heap' = heap
           /\ boxes' = [k \in 1..(Len(boxes) - 1) |-> IF k < i THEN boxes[k] ELSE boxes[k + 1]]
    /\ pc' = IF Len(boxes) = 1 THEN "dropped" ELSE "live"
    /\ lastCall' = "drop"
    /\ UNCHANGED <<hdr, tail, stack, arg, locals, mem, allocCalls, ntrans>>

Next ==
    \/ Capture
    \/ Widen
    \/ New
    \/ Transmute
    \/ MoreUnsafeTransmute
    \/ DropBox

Spec == Init /\ [][Next]_vars

\* ---- properties ------------------------------------------------------------
TheBox == boxes[1]
SpecPadding(hs, ta) == (ta - (hs % ta)) % ta
DeallocIf(c) == IF c THEN <<"dealloc">> ELSE <<>>

\* C1: the handle DynStruct::new(h, dyn_arg!(t)) returns has header == h and a
\* tail whose length and elements equal t element-wise.
Inv_C1_RoundTrip ==
    pc = "live" =>
        /\ ReadHeader = hdr.val
        /\ TailCount(TheBox) = Len(tail.vals)
        /\ ReadTail(TheBox) = tail.vals

\* C2: the size DynStruct::size computes, and new requests from the allocator,
\* is size(Header) + padding + size(Tail) with
\* padding = (align(Tail) - size(Header) mod align(Tail)) mod align(Tail).
Inv_C2_SizeLaw ==
    pc = "live" =>
        LET total == hdr.ty.size + SpecPadding(hdr.ty.size, ArgAlign(TheBox)) + ArgSize(TheBox)
        IN /\ locals.size = total
           /\ total # 0 => /\ Len(allocCalls) = 1
                           /\ allocCalls[1].size = total

Wit_C2_Padded ==
    /\ pc = "live"
    /\ hdr.ty.size % ArgAlign(TheBox) # 0
    /\ ArgSize(TheBox) # 0
    /\ Len(allocCalls) = 1

\* C3: when a composite of total size != 0 is dropped, the free call uses
\* exactly the size and the alignment new passed to the allocator.
Inv_C3_FreeMatchesAlloc ==
    (pc = "dropped" /\ locals.size # 0) => freeCalls = allocCalls

\* C4: when the total size is zero, new makes no allocator call, the handle
\* wraps a fixed non-null sentinel address, and no byte is stored at it.
Inv_C4_ZeroSizeSentinel ==
    (pc = "live" /\ locals.size = 0) =>
        /\ allocCalls = <<>>
        /\ TheBox.ptr # NullAddr
        /\ mem = <<>>

\* C5 as stated: for every header type, constructing with a zero-byte tail
\* yields a composite with an empty tail without invoking the allocator.
Inv_C5_EmptyTailNeverAllocates ==
    (pc = "live" /\ ArgSize(TheBox) = 0) =>
        /\ ReadTailBytes(TheBox) = <<>>
        /\ allocCalls = <<>>

\* C5 amended: constructing with a zero-byte tail yields a composite with an
\* empty tail; the allocator is not invoked exactly when the header is
\* zero-sized too, otherwise one block of size(Header) + padding is requested.
Inv_C5_EmptyTail ==
    (pc = "live" /\ ArgSize(TheBox) = 0) =>
        /\ Len(boxes) = 1
        /\ ReadTailBytes(TheBox) = <<>>
        /\ TailCount(TheBox) = Len(tail.vals)
        /\ (allocCalls = <<>>) <=> (hdr.ty.size = 0)
        /\ hdr.ty.size # 0 =>
             allocCalls = <<[size  |-> hdr.ty.size + SpecPadding(hdr.ty.size, ArgAlign(TheBox)),
                             align |-> Max(hdr.ty.align, ArgAlign(TheBox))]>>

Wit_C5_EmptyTailWithHeader ==
    /\ pc = "live"
    /\ ArgSize(TheBox) = 0
    /\ hdr.ty.size # 0
    /\ Len(allocCalls) = 1

\* C6: the destructor of the value captured with dyn_arg! does not run at
\* capture nor in write_into, and runs exactly once, on that value, when the
\* composite handle is dropped.
Inv_C6_DestructorOnce ==
    /\ pc \in {"captured", "live"} => tailDrops = <<>>
    /\ pc = "dropped" => tailDrops = tail.vals

\* C7 as stated: on drop the tail's destructor runs first, then the header's,
\* then (only if total != 0) the allocation is freed.
Inv_C7_TailThenHeaderThenFree ==
    pc = "dropped" =>
        events = <<"drop_tail", "drop_header">> \o DeallocIf(locals.size # 0)

\* C7 amended: on drop the header's destructor runs first, then the tail's,
\* then (only if total != 0) the allocation is freed; the free never precedes
\* either destructor.
Inv_C7_HeaderThenTailThenFree ==
    /\ pc = "dropped" =>
        events = <<"drop_header", "drop_tail">> \o DeallocIf(locals.size # 0)
    /\ pc # "dropped" => events = <<>>

Wit_C7_DroppedAndFreed ==
    /\ pc = "dropped"
    /\ locals.size # 0
    /\ Len(events) = 3

\* every live allocation has exactly one owning handle, every handle over a
\* block owns a live one, and a dropped composite leaves nothing allocated
OneOwnerPerAllocation ==
    /\ \A h \in heap : Cardinality({i \in 1..Len(boxes) : boxes[i].ptr = h.ptr}) = 1
    /\ \A i \in 1..Len(boxes) :
          boxes[i].ptr # NullAddr => \E h \in heap : h.ptr = boxes[i].ptr
    /\ Len(boxes) <= 1
    /\ pc = "live" =>
          /\ Len(boxes) = 1
          /\ Cardinality(heap) = Len(allocCalls)
          /\ freeCalls = <<>>
    /\ pc = "dropped" =>
          /\ heap = {}
          /\ Len(freeCalls) = Len(allocCalls)

\* a transmute consumes the handle and returns one over the same address and
\* descriptor, copying no bytes
TransmuteKeepsBlock ==
    (pc = "live" /\ ntrans' = ntrans + 1) =>
          /\ Len(boxes') = 1
          /\ TheBox'.ptr = TheBox.ptr
          /\ TheBox'.meta = TheBox.meta
          /\ mem' = mem
          /\ allocCalls' = allocCalls

\* C8: after any sequence of new, transmute / more_unsafe_transmute and drops,
\* every live allocation has exactly one owning handle; a reinterpretation
\* consumes the handle and returns one over the same address and descriptor
\* without copying bytes, and no allocation is freed twice or leaked.
Thm_C8_ExclusiveOwnership == []OneOwnerPerAllocation /\ [][TransmuteKeepsBlock]_vars

Wit_C8_Transmuted ==
    /\ pc = "live"
    /\ ntrans = MaxTransmutes
    /\ heap # {}
    /\ TheBox.ty = "SomeStruct"

\* C9: widening a DynArg keeps the captured address, moves no bytes, reports
\* the same size and alignment, and write_into copies the same bytes as it
\* would for the concrete wrapper.
Act_C9_WideningPreserves ==
    [][(arg.kind = "array" /\ arg'.kind \in {"slice", "dyn"}) =>
          /\ arg'.addr = arg.addr
          /\ stack' = stack
          /\ mem' = mem
          /\ ArgSize(arg') = ArgSize(arg)
          /\ ArgAlign(arg') = ArgAlign(arg)
          /\ TailCount(arg') = TailCount(arg)
          /\ WriteIntoOutcomes(arg', stack') = WriteIntoOutcomes(arg, stack)]_vars

Wit_C9_Widened ==
    /\ pc = "captured"
    /\ arg.kind \in {"slice", "dyn"}
    /\ ArgSize(arg) > 1

\* C10: the storage the DynArg returned by dyn_arg! points to stays valid
\* from capture until write_into consumes the DynArg.
Inv_C10_StorageValidUntilConsumed ==
    (pc = "captured" /\ arg.addr = ValAddr) => stack.live

====
